---- MODULE Spec2Model ----
(***************************************************************************)
(* Signet cache intent discovery (solver-discovery, signet/cache.rs):      *)
(* the lifecycle controller (start_monitoring / stop_monitoring) and the   *)
(* polling loop it spawns, as a state machine.                             *)
(*                                                                         *)
(* Callers are concurrent invocations of the two public async methods on   *)
(* one SignetCacheDiscovery instance. Each step of a caller is one access  *)
(* to the shared state (the atomic flag, one of the two mutex-protected    *)
(* options) or one spawn; each step of a polling task is the code between  *)
(* two suspension points of polling_loop.                                  *)
(*                                                                         *)
(* Signet bundle delivery (solver-delivery, signet/bundle.rs): one caller  *)
(* of submit on one SignetBundleDelivery instance. Each step is the code   *)
(* between two awaits on an external service (the rollup RPC, the signer,  *)
(* the provider's fill, the transaction cache), whose answers are inputs.  *)
(***************************************************************************)
EXTENDS Integers, Sequences, FiniteSets, TLC

\* ------------------------------------------------------------------ bounds

\* Concurrent callers of start_monitoring / stop_monitoring.
NCallers == 2
\* start_monitoring calls that get past the is_monitoring check (each creates
\* one broadcast channel and spawns one polling task).
MaxStarts == 2
\* The same under the sequential specification.
MaxStartsSeq == 1
\* Fetches one polling task performs under the concurrent specification.
MaxTicks == 1
\* Fetches one polling task performs under the sequential specification.
MaxTicksSeq == 2
\* Orders in one fetch result.
MaxOrders == 2
\* Largest value of the clock read by current_timestamp().
MaxNow == 1

\* ------------------------------------------------------- program constants

MAX_POLLING_INTERVAL_SECS == 300

\* ------------------------------------------------------------------ values

Callers == 1..NCallers
Ids == 1..MaxStarts
\* Option::None for the stored sender and the stored join handle.
None == 0

\* Option<Vec<String>> of SignetCacheConfig.whitelist_addresses.
NoWhitelist == [is_some |-> FALSE, addresses |-> <<>>]
SomeWhitelist(a) == [is_some |-> TRUE, addresses |-> a]

\* Chain names for which Url::parse("https://cache.<name>.signet.sh") fails
\* (a space is not a valid host character).
UnparsableHosts == {"bad name"}

\* SignedOrder: the permit nonce and owner, and whether serde_json can
\* serialize the order.
Nonces == {2, 12}
Orders == [nonce : Nonces, owner : {"0xA"}, serializable : BOOLEAN]

RECURSIVE SeqsUpTo(_, _)
SeqsUpTo(S, n) ==
    IF n = 0 THEN {<<>>}
    ELSE LET shorter == SeqsUpTo(S, n - 1)
         IN  shorter \cup {Append(s, x) : s \in {t \in shorter : Len(t) = n - 1}, x \in S}

\* What one get_orders() call can return on success.
FetchResults == SeqsUpTo(Orders, MaxOrders)

\* ------------------------------------------------------------- construction

\* SignetCacheDiscovery::new: the validation of the configuration.
New(cfg) ==
    IF cfg.chain_name = "" THEN "ValidationError"
    ELSE IF cfg.polling_interval_secs = 0
            \/ cfg.polling_interval_secs > MAX_POLLING_INTERVAL_SECS
         THEN "ValidationError"
         ELSE "Ok"

ConfigInputs(names, intervals, whitelists) ==
    [chain_name : names, polling_interval_secs : intervals,
     whitelist_addresses : whitelists]

\* --------------------------------------------------------- pure functions

\* format!("{}", n) of an unsigned integer: its decimal digits, most
\* significant first.
Digit(d) == CASE d = 0 -> "0" [] d = 1 -> "1" [] d = 2 -> "2" [] d = 3 -> "3"
              [] d = 4 -> "4" [] d = 5 -> "5" [] d = 6 -> "6" [] d = 7 -> "7"
              [] d = 8 -> "8" [] d = 9 -> "9"

RECURSIVE Decimal(_)
Decimal(n) == IF n < 10 THEN <<Digit(n)>> ELSE Append(Decimal(n \div 10), Digit(n % 10))

\* The nonce formatted with {:x} instead of {}: its hexadecimal digits.
HexDigit(d) == IF d < 10 THEN Digit(d)
               ELSE CASE d = 10 -> "a" [] d = 11 -> "b" [] d = 12 -> "c"
                      [] d = 13 -> "d" [] d = 14 -> "e" [] d = 15 -> "f"

RECURSIVE Hexadecimal(_)
Hexadecimal(n) == IF n < 16 THEN <<HexDigit(n)>> ELSE Append(Hexadecimal(n \div 16), HexDigit(n % 16))

IntentId_Hex(nonce) == <<"signet-">> \o Hexadecimal(nonce)

\* format!("signet-{}", nonce): the literal prefix followed by the digits.
IntentId(nonce) == <<"signet-">> \o Decimal(nonce)

\* serde_json::to_value(order) / serde_json::to_vec(order).
ToJson(order) ==
    IF order.serializable
    THEN [ok |-> TRUE, value |-> [permit |-> [nonce |-> order.nonce, owner |-> order.owner]]]
    ELSE [ok |-> FALSE, value |-> [permit |-> [nonce |-> 0, owner |-> ""]]]

\* SignetCacheDiscovery::order_to_intent at clock value t.
order_to_intent(order, t) ==
    LET id == IntentId(order.nonce)
        data == ToJson(order)
    IN  IF ~data.ok
        THEN [ok |-> FALSE, err |-> "ParseError"]
        ELSE [ok |-> TRUE,
              intent |-> [id |-> id,
                          source |-> "signet-cache",
                          standard |-> "permit2",
                          discovered_at |-> t,
                          data |-> data.value,
                          lock_type |-> "permit2"]]

\* The whitelist enforced on the permit owner: with a list, only the orders
\* whose owner is in it are accepted.
matches_whitelist_OwnerInList(order, whitelist) ==
    IF ~whitelist.is_some THEN TRUE
    ELSE \E k \in DOMAIN whitelist.addresses : whitelist.addresses[k] = order.owner

\* SignetCacheDiscovery::matches_whitelist: both arms accept.
matches_whitelist(order, whitelist) ==
    IF ~whitelist.is_some THEN TRUE ELSE TRUE

\* The cache client of polling_loop can be built for this chain name.
ClientBuilds(chain_name) ==
    chain_name = "pecorino" \/ chain_name \notin UnparsableHosts

\* ------------------------------------------------------------------- state

VARIABLES
    config,             \* SignetCacheDiscovery.config
    now,                \* the clock read by current_timestamp()
    is_monitoring,      \* SignetCacheDiscovery.is_monitoring (AtomicBool)
    stop_signal,        \* SignetCacheDiscovery.stop_signal: None or the id of the channel whose Sender is stored
    monitoring_handle,  \* SignetCacheDiscovery.monitoring_handle: None or the id of the task whose JoinHandle is stored
    chan,               \* per broadcast channel: "none" | "open" | "signalled" (() sent, Sender dropped) | "closed" (Sender dropped unsent)
    tpc,                \* per polling task: "none" | "spawned" | "select" | "fetching" | "processing" | "exited"
    queue,              \* per polling task: the orders of the current tick not yet processed
    rxOpen,             \* per session: the consumer of the mpsc sender passed to start_monitoring is alive
    out,                \* per session: the intents delivered on the output channel
    cpc,                \* per caller: where it is in start_monitoring / stop_monitoring
    cid,                \* per caller: start: the channel/task it created; stop: the handle it awaits
    cres,               \* per caller: "none" | "pending" | "Ok" | "AlreadyMonitoring"
    ccall,              \* per caller: "none" | "start" | "stop", the call of cres
    fetchHist,          \* history: per task, the outcomes of its completed fetches
    expected,           \* history: per task, the permits of the serializable orders fetched so far, in order
    sentBefore,         \* history: per task, the number of intents sent before the latest fetch result arrived
    dropped,            \* history: per task, the number of orders dropped with the warning "Failed to convert order to intent"
    lifecycle,          \* history: "Monitoring" iff a start returned Ok and no stop has returned since
    atBegin,            \* history: per caller, the tasks spawned before its last stop call began, when that call found the flag set ({} when it did not)
    raced               \* history: per caller, for its last start call: "yes" when another start call returned Ok during it, "stop" when a stop call overlapped it, else "no"

\* SignetBundleDelivery (solver-delivery, signet/bundle.rs) and one caller of
\* its submit method.
VARIABLES
    dconfig,            \* SignetBundleDelivery.config
    networks,           \* SignetBundleDelivery.networks: what it holds for the rollup chain
    chainNonce,         \* the transaction count of the signer's address at the rollup RPC
    cache,              \* the transaction cache: the bundles it accepted, each with the id it answered
    dpc,                \* where the caller is in submit
    dtx,                \* the transaction passed to submit
    signed_order,       \* create_bundles: the deserialized SignedOrder
    current_block,      \* create_bundles: the observed rollup block
    unsigned_fill,      \* create_signed_fills: the deadline, the order contract configured per chain, and the chains skipped with a warning
    signed_fills,       \* create_bundles: the map chain id -> SignedFill
    tx_requests,        \* sign_and_encode_txns: the requests not yet processed
    provider,           \* sign_and_encode_txns: the nonce the provider's filler holds for the signer (None before the first fill)
    encoded_txs,        \* sign_and_encode_txns: the encoded transactions so far
    bundles,            \* submit: the bundles not yet forwarded
    last_bundle_id,     \* submit: last_bundle_id
    dres,               \* the result of the last submit call ("none" before, "pending" during)
    dcalls,             \* history: submit calls made
    built,              \* history: the bundles the last create_bundles returned
    fillHist,           \* history: what provider.fill answered, request by request, during the last submit call
    forwarded,          \* history: the bundles forwarded during the last submit call, each with the cache's answer
    inflight,           \* submit: the bundles passed to forward_bundle whose answer has not arrived
    newCall             \* history: the last constructor call, with its result

discoveryVars == <<config, now, is_monitoring, stop_signal, monitoring_handle,
                   chan, tpc, queue, rxOpen, out, cpc, cid, cres, ccall,
                   fetchHist, expected, sentBefore, dropped, lifecycle, atBegin, raced>>

deliveryVars == <<dconfig, networks, chainNonce, cache, dpc, dtx, signed_order,
                  current_block, unsigned_fill, signed_fills, tx_requests,
                  provider, encoded_txs, bundles, last_bundle_id, dres, dcalls,
                  built, fillHist, forwarded, inflight, newCall>>

vars == <<discoveryVars, deliveryVars>>

sharedVars == <<is_monitoring, stop_signal, monitoring_handle>>
taskVars == <<tpc, queue, out, fetchHist, expected, sentBefore, dropped>>
envVars == <<config, now, rxOpen>>

\* The state after SignetCacheDiscovery::new returned Ok(Self) for cfg.
Constructed(cfg) ==
    /\ New(cfg) = "Ok"
    /\ config = cfg
    /\ now = 0
    /\ is_monitoring = FALSE
    /\ monitoring_handle = None
    /\ stop_signal = None
    /\ chan = [i \in Ids |-> "none"]
    /\ tpc = [i \in Ids |-> "none"]
    /\ queue = [i \in Ids |-> <<>>]
    /\ rxOpen = [i \in Ids |-> TRUE]
    /\ out = [i \in Ids |-> <<>>]
    /\ cpc = [c \in Callers |-> "idle"]
    /\ cid = [c \in Callers |-> None]
    /\ cres = [c \in Callers |-> "none"]
    /\ ccall = [c \in Callers |-> "none"]
    /\ fetchHist = [i \in Ids |-> <<>>]
    /\ expected = [i \in Ids |-> <<>>]
    /\ sentBefore = [i \in Ids |-> 0]
    /\ dropped = [i \in Ids |-> 0]
    /\ lifecycle = "Idle"
    /\ atBegin = [c \in Callers |-> {}]
    /\ raced = [c \in Callers |-> "no"]

\* Stages of start_monitoring after the is_monitoring check.
StartStages == {"s_signal", "s_spawn", "s_handle", "s_flag"}
\* Stages of stop_monitoring after the is_monitoring check.
StopStages == {"p_signal", "p_lock", "p_await", "p_flag"}

\* The monitoring_handle mutex is held: stop_monitoring keeps the guard of
\* `self.monitoring_handle.lock().await.take()` across `handle.await`.
HandleLocked == \E c \in Callers : cpc[c] = "p_await"

\* The id the next broadcast::channel(1) gets.
Created == {i \in Ids : chan[i] # "none"}
NextId == Cardinality(Created) + 1

Live(i) == tpc[i] \in {"spawned", "select", "fetching", "processing"}
Spawned == {i \in Ids : tpc[i] # "none"}

\* -------------------------------------------------------- start_monitoring

\* start_monitoring made idempotent: on a set flag it returns Ok(()) instead
\* of Err(AlreadyMonitoring).
StartCheck_ReturnsOk(c, maxStarts) ==
    /\ cpc[c] = "idle"
    /\ ccall' = [ccall EXCEPT ![c] = "start"]
    /\ raced' = [raced EXCEPT ![c] = IF \E d \in Callers : cpc[d] \in StopStages THEN "stop" ELSE "no"]
    /\ IF is_monitoring
       THEN /\ cres' = [cres EXCEPT ![c] = "Ok"]
            /\ cpc' = cpc
       ELSE /\ Cardinality(Created) + Cardinality({d \in Callers : cpc[d] = "s_signal"}) < maxStarts
            /\ cres' = [cres EXCEPT ![c] = "pending"]
            /\ cpc' = [cpc EXCEPT ![c] = "s_signal"]
    /\ UNCHANGED <<deliveryVars, sharedVars, chan, taskVars, envVars, cid, lifecycle, atBegin>>

\* `if self.is_monitoring.load(SeqCst) { return Err(AlreadyMonitoring) }`.
\* The call begins with this load. A call that gets past the check will
\* create a channel, so it is admitted only while ids are left.
StartCheck(c, maxStarts) ==
    /\ cpc[c] = "idle"
    /\ ccall' = [ccall EXCEPT ![c] = "start"]
    /\ raced' = [raced EXCEPT ![c] = IF \E d \in Callers : cpc[d] \in StopStages THEN "stop" ELSE "no"]
    /\ IF is_monitoring
       THEN /\ cres' = [cres EXCEPT ![c] = "AlreadyMonitoring"]
            /\ cpc' = cpc
       ELSE /\ Cardinality(Created) + Cardinality({d \in Callers : cpc[d] = "s_signal"}) < maxStarts
            /\ cres' = [cres EXCEPT ![c] = "pending"]
            /\ cpc' = [cpc EXCEPT ![c] = "s_signal"]
    /\ UNCHANGED <<deliveryVars, sharedVars, chan, taskVars, envVars, cid, lifecycle, atBegin>>

\* `let (stop_tx, stop_rx) = broadcast::channel(1);`
\* `*self.stop_signal.lock().await = Some(stop_tx);`
\* The assignment drops the Sender stored before, which closes its channel.
StartSignal(c) ==
    /\ cpc[c] = "s_signal"
    /\ LET id == NextId
           old == stop_signal
       IN  /\ cid' = [cid EXCEPT ![c] = id]
           /\ stop_signal' = id
           /\ chan' = [i \in Ids |->
                         IF i = id THEN "open"
                         ELSE IF i = old /\ chan[i] = "open" THEN "closed"
                         ELSE chan[i]]
    /\ cpc' = [cpc EXCEPT ![c] = "s_spawn"]
    /\ UNCHANGED <<deliveryVars, is_monitoring, monitoring_handle, taskVars, envVars, cres,
                   ccall, lifecycle, atBegin, raced>>

\* `let handle = tokio::spawn(async move { Self::polling_loop(..).await });`
StartSpawn(c) ==
    /\ cpc[c] = "s_spawn"
    /\ tpc' = [tpc EXCEPT ![cid[c]] = "spawned"]
    /\ cpc' = [cpc EXCEPT ![c] = "s_handle"]
    /\ UNCHANGED <<deliveryVars, sharedVars, chan, queue, out, fetchHist,
                   expected, sentBefore, dropped, envVars, cid, cres, ccall, lifecycle, atBegin, raced>>

\* `*self.monitoring_handle.lock().await = Some(handle);`
\* The JoinHandle stored before is dropped, which detaches its task.
StartHandle(c) ==
    /\ cpc[c] = "s_handle"
    /\ ~HandleLocked
    /\ monitoring_handle' = cid[c]
    /\ cpc' = [cpc EXCEPT ![c] = "s_flag"]
    /\ UNCHANGED <<deliveryVars, is_monitoring, stop_signal, chan, taskVars, envVars, cid,
                   cres, ccall, lifecycle, atBegin, raced>>

\* `self.is_monitoring.store(true, SeqCst); ... Ok(())`
StartFlag(c) ==
    /\ cpc[c] = "s_flag"
    /\ is_monitoring' = TRUE
    /\ cres' = [cres EXCEPT ![c] = "Ok"]
    /\ cpc' = [cpc EXCEPT ![c] = "idle"]
    /\ cid' = [cid EXCEPT ![c] = None]
    /\ lifecycle' = "Monitoring"
    /\ raced' = [d \in Callers |->
                    IF d # c /\ cpc[d] \in StartStages /\ raced[d] = "no" /\ raced[c] # "stop"
                    THEN "yes" ELSE raced[d]]
    /\ UNCHANGED <<deliveryVars, stop_signal, monitoring_handle, chan, taskVars, envVars,
                   ccall, atBegin>>

\* --------------------------------------------------------- stop_monitoring

\* stop_monitoring without its early return: it goes on to take the sender
\* and the handle whatever the flag says.
StopCheck_NoEarlyReturn(c) ==
    /\ cpc[c] = "idle"
    /\ ccall' = [ccall EXCEPT ![c] = "stop"]
    /\ raced' = [d \in Callers |-> IF cpc[d] \in StartStages THEN "stop" ELSE raced[d]]
    /\ cres' = [cres EXCEPT ![c] = "pending"]
    /\ cpc' = [cpc EXCEPT ![c] = "p_signal"]
    /\ lifecycle' = lifecycle
    /\ atBegin' = [atBegin EXCEPT ![c] = Spawned]
    /\ UNCHANGED <<deliveryVars, sharedVars, chan, taskVars, envVars, cid>>

\* `if !self.is_monitoring.load(SeqCst) { return Ok(()) }`.
\* The call begins with this load.
StopCheck(c) ==
    /\ cpc[c] = "idle"
    /\ ccall' = [ccall EXCEPT ![c] = "stop"]
    /\ raced' = [d \in Callers |-> IF cpc[d] \in StartStages THEN "stop" ELSE raced[d]]
    /\ IF ~is_monitoring
       THEN /\ cres' = [cres EXCEPT ![c] = "Ok"]
            /\ cpc' = cpc
            /\ lifecycle' = "Idle"
            /\ atBegin' = [atBegin EXCEPT ![c] = {}]
       ELSE /\ cres' = [cres EXCEPT ![c] = "pending"]
            /\ cpc' = [cpc EXCEPT ![c] = "p_signal"]
            /\ lifecycle' = lifecycle
            /\ atBegin' = [atBegin EXCEPT ![c] = Spawned]
    /\ UNCHANGED <<deliveryVars, sharedVars, chan, taskVars, envVars, cid>>

\* `if let Some(stop_tx) = self.stop_signal.lock().await.take() { let _ = stop_tx.send(()); }`
\* The taken Sender is dropped at the end of the block.
StopSignal(c) ==
    /\ cpc[c] = "p_signal"
    /\ IF stop_signal # None
       THEN chan' = [chan EXCEPT ![stop_signal] = "signalled"]
       ELSE chan' = chan
    /\ stop_signal' = None
    /\ cpc' = [cpc EXCEPT ![c] = "p_lock"]
    /\ UNCHANGED <<deliveryVars, is_monitoring, monitoring_handle, taskVars, envVars, cid,
                   cres, ccall, lifecycle, atBegin, raced>>

\* `if let Some(handle) = self.monitoring_handle.lock().await.take() {`
\* With a handle taken the guard stays held while the handle is awaited.
StopLock(c) ==
    /\ cpc[c] = "p_lock"
    /\ ~HandleLocked
    /\ IF monitoring_handle # None
       THEN /\ cid' = [cid EXCEPT ![c] = monitoring_handle]
            /\ cpc' = [cpc EXCEPT ![c] = "p_await"]
       ELSE /\ cid' = cid
            /\ cpc' = [cpc EXCEPT ![c] = "p_flag"]
    /\ monitoring_handle' = None
    /\ UNCHANGED <<deliveryVars, is_monitoring, stop_signal, chan, taskVars, envVars, cres,
                   ccall, lifecycle, atBegin, raced>>

\* `let _ = handle.await; }`: resumes when the task has finished.
StopAwait(c) ==
    /\ cpc[c] = "p_await"
    /\ tpc[cid[c]] = "exited"
    /\ cpc' = [cpc EXCEPT ![c] = "p_flag"]
    /\ UNCHANGED <<deliveryVars, sharedVars, chan, taskVars, envVars, cid, cres, ccall,
                   lifecycle, atBegin, raced>>

\* `self.is_monitoring.store(false, SeqCst); ... Ok(())`
StopFlag(c) ==
    /\ cpc[c] = "p_flag"
    /\ is_monitoring' = FALSE
    /\ cres' = [cres EXCEPT ![c] = "Ok"]
    /\ cpc' = [cpc EXCEPT ![c] = "idle"]
    /\ lifecycle' = "Idle"
    /\ cid' = [cid EXCEPT ![c] = None]
    /\ UNCHANGED <<deliveryVars, stop_signal, monitoring_handle, chan, taskVars, envVars,
                   ccall, atBegin, raced>>

\* ------------------------------------------------------------ polling_loop

\* The permits of the orders of a fetch result that serde_json can serialize.
Permit(order) == [nonce |-> order.nonce, owner |-> order.owner]

RECURSIVE SerializablePermits(_)
SerializablePermits(orders) ==
    IF orders = <<>> THEN <<>>
    ELSE (IF Head(orders).serializable THEN <<Permit(Head(orders))>> ELSE <<>>)
         \o SerializablePermits(Tail(orders))

\* The task starts running: it builds the cache client, and returns at once
\* when TxCache::new_from_string fails; otherwise it creates the interval and
\* enters the loop.
TaskInit(i) ==
    /\ tpc[i] = "spawned"
    /\ tpc' = [tpc EXCEPT ![i] = IF ClientBuilds(config.chain_name) THEN "select" ELSE "exited"]
    /\ UNCHANGED <<deliveryVars, sharedVars, chan, queue, out, fetchHist,
                   expected, sentBefore, dropped, envVars, cpc, cid, cres, ccall, lifecycle, atBegin, raced>>

\* select!: the `interval.tick()` arm is taken (the first tick completes at
\* once, later ones when the period has passed) and get_orders() is called.
TaskTick(i, maxTicks) ==
    /\ tpc[i] = "select"
    /\ Len(fetchHist[i]) < maxTicks
    /\ tpc' = [tpc EXCEPT ![i] = "fetching"]
    /\ UNCHANGED <<deliveryVars, sharedVars, chan, queue, out, fetchHist,
                   expected, sentBefore, dropped, envVars, cpc, cid, cres, ccall, lifecycle, atBegin, raced>>

\* The loop left with `break` when the cache returns no orders.
TaskFetchOk_BreakOnEmpty(i, orders) ==
    /\ tpc[i] = "fetching"
    /\ queue' = [queue EXCEPT ![i] = orders]
    /\ tpc' = [tpc EXCEPT ![i] = IF orders = <<>> THEN "exited" ELSE "processing"]
    /\ fetchHist' = [fetchHist EXCEPT ![i] = Append(@, "ok")]
    /\ expected' = [expected EXCEPT ![i] = @ \o SerializablePermits(orders)]
    /\ sentBefore' = [sentBefore EXCEPT ![i] = Len(out[i])]
    /\ UNCHANGED <<deliveryVars, sharedVars, chan, out, dropped, envVars, cpc, cid, cres, ccall,
                   lifecycle, atBegin, raced>>

\* `client.get_orders().await` returns Ok(orders): the for loop starts.
TaskFetchOk(i, orders) ==
    /\ tpc[i] = "fetching"
    /\ queue' = [queue EXCEPT ![i] = orders]
    /\ tpc' = [tpc EXCEPT ![i] = IF orders = <<>> THEN "select" ELSE "processing"]
    /\ fetchHist' = [fetchHist EXCEPT ![i] = Append(@, "ok")]
    /\ expected' = [expected EXCEPT ![i] = @ \o SerializablePermits(orders)]
    /\ sentBefore' = [sentBefore EXCEPT ![i] = Len(out[i])]
    /\ UNCHANGED <<deliveryVars, sharedVars, chan, out, dropped, envVars, cpc, cid, cres, ccall,
                   lifecycle, atBegin, raced>>

\* The task returning on a fetch error instead of logging it.
TaskFetchErr_Returns(i) ==
    /\ tpc[i] = "fetching"
    /\ tpc' = [tpc EXCEPT ![i] = "exited"]
    /\ fetchHist' = [fetchHist EXCEPT ![i] = Append(@, "err")]
    /\ UNCHANGED <<deliveryVars, sharedVars, chan, queue, out,
                   expected, sentBefore, dropped, envVars, cpc, cid,
                   cres, ccall, lifecycle, atBegin, raced>>

\* `client.get_orders().await` returns Err: logged, back to the select.
TaskFetchErr(i) ==
    /\ tpc[i] = "fetching"
    /\ tpc' = [tpc EXCEPT ![i] = "select"]
    /\ fetchHist' = [fetchHist EXCEPT ![i] = Append(@, "err")]
    /\ UNCHANGED <<deliveryVars, sharedVars, chan, queue, out,
                   expected, sentBefore, dropped, envVars, cpc, cid,
                   cres, ccall, lifecycle, atBegin, raced>>

\* The orders taken from the back of the list (`orders.pop()`).
TaskProcess_FromBack(i) ==
    /\ tpc[i] = "processing"
    /\ LET n == Len(queue[i])
           order == queue[i][n]
           rest == SubSeq(queue[i], 1, n - 1)
           conv == order_to_intent(order, now)
       IN  /\ out' = [out EXCEPT ![i] =
                        IF /\ matches_whitelist(order, config.whitelist_addresses)
                           /\ conv.ok
                           /\ rxOpen[i]
                        THEN Append(@, conv.intent)
                        ELSE @]
           /\ queue' = [queue EXCEPT ![i] = rest]
           /\ dropped' = [dropped EXCEPT ![i] =
                            IF matches_whitelist(order, config.whitelist_addresses) /\ ~conv.ok
                            THEN @ + 1 ELSE @]
           /\ tpc' = [tpc EXCEPT ![i] = IF rest = <<>> THEN "select" ELSE "processing"]
    /\ UNCHANGED <<deliveryVars, sharedVars, chan, fetchHist, expected, sentBefore,
                   envVars, cpc, cid,
                   cres, ccall, lifecycle, atBegin, raced>>

\* The task returning when a send fails (`sender.send(intent)?`-style).
TaskProcess_ReturnsOnSendError(i) ==
    /\ tpc[i] = "processing"
    /\ LET order == Head(queue[i])
           rest == Tail(queue[i])
           conv == order_to_intent(order, now)
           sends == matches_whitelist(order, config.whitelist_addresses) /\ conv.ok
       IN  /\ out' = [out EXCEPT ![i] = IF sends /\ rxOpen[i] THEN Append(@, conv.intent) ELSE @]
           /\ queue' = [queue EXCEPT ![i] = rest]
           /\ dropped' = [dropped EXCEPT ![i] =
                            IF matches_whitelist(order, config.whitelist_addresses) /\ ~conv.ok
                            THEN @ + 1 ELSE @]
           /\ tpc' = [tpc EXCEPT ![i] =
                        IF sends /\ ~rxOpen[i] THEN "exited"
                        ELSE IF rest = <<>> THEN "select" ELSE "processing"]
    /\ UNCHANGED <<deliveryVars, sharedVars, chan, fetchHist, expected, sentBefore,
                   envVars, cpc, cid,
                   cres, ccall, lifecycle, atBegin, raced>>

\* The for loop left with `break` when a conversion fails: the orders after
\* the failed one are not processed.
TaskProcess_BreaksOnParseError(i) ==
    /\ tpc[i] = "processing"
    /\ LET order == Head(queue[i])
           conv == order_to_intent(order, now)
           fails == matches_whitelist(order, config.whitelist_addresses) /\ ~conv.ok
           rest == IF fails THEN <<>> ELSE Tail(queue[i])
       IN  /\ out' = [out EXCEPT ![i] =
                        IF /\ matches_whitelist(order, config.whitelist_addresses)
                           /\ conv.ok
                           /\ rxOpen[i]
                        THEN Append(@, conv.intent)
                        ELSE @]
           /\ queue' = [queue EXCEPT ![i] = rest]
           /\ dropped' = [dropped EXCEPT ![i] = IF fails THEN @ + 1 ELSE @]
           /\ tpc' = [tpc EXCEPT ![i] = IF rest = <<>> THEN "select" ELSE "processing"]
    /\ UNCHANGED <<deliveryVars, sharedVars, chan, fetchHist, expected, sentBefore, envVars,
                   cpc, cid, cres, ccall, lifecycle, atBegin, raced>>

\* One iteration of `for order in orders`: the whitelist filter, the
\* conversion and the send; a failed conversion or send is only logged.
TaskProcess(i) ==
    /\ tpc[i] = "processing"
    /\ LET order == Head(queue[i])
           rest == Tail(queue[i])
           conv == order_to_intent(order, now)
       IN  /\ out' = [out EXCEPT ![i] =
                        IF /\ matches_whitelist(order, config.whitelist_addresses)
                           /\ conv.ok
                           /\ rxOpen[i]
                        THEN Append(@, conv.intent)
                        ELSE @]
           /\ queue' = [queue EXCEPT ![i] = rest]
           /\ dropped' = [dropped EXCEPT ![i] =
                            IF matches_whitelist(order, config.whitelist_addresses) /\ ~conv.ok
                            THEN @ + 1 ELSE @]
           /\ tpc' = [tpc EXCEPT ![i] = IF rest = <<>> THEN "select" ELSE "processing"]
    /\ UNCHANGED <<deliveryVars, sharedVars, chan, fetchHist, expected, sentBefore,
                   envVars, cpc, cid,
                   cres, ccall, lifecycle, atBegin, raced>>

\* One stop channel shared by every session of the instance: a task leaves
\* its loop on the stop signal of any session.
TaskStop_AnySignal(i) ==
    /\ tpc[i] = "select"
    /\ \E j \in Ids : chan[j] \in {"signalled", "closed"}
    /\ tpc' = [tpc EXCEPT ![i] = "exited"]
    /\ UNCHANGED <<deliveryVars, sharedVars, chan, queue, out, fetchHist,
                   expected, sentBefore, dropped, envVars, cpc, cid, cres, ccall,
                   lifecycle, atBegin, raced>>

\* select!: the `stop_rx.recv()` arm is taken. recv() resolves with Ok(())
\* when () was sent and with Err(Closed) when every Sender is dropped; the
\* arm's pattern `_` accepts both, and the loop breaks.
TaskStop(i) ==
    /\ tpc[i] = "select"
    /\ chan[i] \in {"signalled", "closed"}
    /\ tpc' = [tpc EXCEPT ![i] = "exited"]
    /\ UNCHANGED <<deliveryVars, sharedVars, chan, queue, out, fetchHist,
                   expected, sentBefore, dropped, envVars, cpc, cid, cres, ccall, lifecycle, atBegin, raced>>

\* ------------------------------------------------------------- environment

\* The consumer of a session's output channel drops its receiver.
CloseReceiver(i) ==
    /\ Live(i)
    /\ rxOpen[i]
    /\ rxOpen' = [rxOpen EXCEPT ![i] = FALSE]
    /\ UNCHANGED <<deliveryVars, sharedVars, chan, taskVars, config, now, cpc, cid, cres,
                   ccall, lifecycle, atBegin, raced>>

\* Time passes.
AdvanceClock ==
    /\ now < MaxNow
    /\ now' = now + 1
    /\ UNCHANGED <<deliveryVars, sharedVars, chan, taskVars, config, rxOpen, cpc, cid, cres,
                   ccall, lifecycle, atBegin, raced>>

\* ----------------------------------------------------------------- delivery

\* submit calls made on one SignetBundleDelivery.
MaxSubmits == 1
\* Outputs of one SignedOrder.
MaxOutputs == 2

DEFAULT_BLOCK_NUMBER == 1
NUM_TARGET_BLOCKS == 10
DEFAULT_GAS_LIMIT == 1000000
DEFAULT_PRIORITY_FEE_MULTIPLIER == 16
GWEI_TO_WEI == 1000000000

\* Option<u64> of SignetBundleConfig.target_block.
NoBlock == [is_some |-> FALSE, value |-> 0]
SomeBlock(b) == [is_some |-> TRUE, value |-> b]

\* SignetBundleConfig.
DeliveryConfigInputs(names, blocks, rollups, hosts, origins, destinations) ==
    [chain_name : names, target_block : blocks, rollup_chain_id : rollups,
     host_chain_id : hosts, order_origin_address : origins,
     order_destination_address : destinations, filler_recipient : {"0x03"}]

\* What NetworksConfig holds for a chain: no entry ("absent"), an entry whose
\* first RPC endpoint has no HTTP URL ("no_http"), one whose HTTP URL does not
\* parse ("bad_url"), or one with a parsable HTTP URL ("ok").
NetworkStates == {"absent", "no_http", "bad_url", "ok"}

\* SignetBundleDelivery::new: Ok(Self) or the DeliveryError it returns.
DeliveryNew(cfg) ==
    IF cfg.chain_name = ""
    THEN [ok |-> FALSE, kind |-> "Network", msg |-> "chain_name cannot be empty"]
    ELSE IF cfg.chain_name # "pecorino" /\ cfg.chain_name \in UnparsableHosts
    THEN [ok |-> FALSE, kind |-> "Network", msg |-> "Failed to create Signet cache client"]
    ELSE [ok |-> TRUE, kind |-> "", msg |-> ""]

\* A U256 as hi * 2^64 + lo.
U256(hi, lo) == [hi |-> hi, lo |-> lo]
\* `deadline.to_string().parse::<u64>()`: fails above u64::MAX.
ParseU64(d) == IF d.hi = 0 THEN [ok |-> TRUE, value |-> d.lo]
               ELSE [ok |-> FALSE, value |-> 0]

\* Chain ids of order outputs: a rollup, a host, and a chain that is neither.
ChainIds == {1, 7, 901}
Output(c) == [chainId |-> c, recipient |-> "0x0R"]
\* signet_types::SignedOrder, as far as bundle.rs reads it.
SignedOrders ==
    [permit : [deadline : {U256(0, 1700), U256(1, 0)}],
     outputs : SeqsUpTo({Output(c) : c \in ChainIds}, MaxOutputs)]

\* Option<serde_json::Value> of Transaction.metadata: absent, a value that is
\* not a SignedOrder, or a serialized SignedOrder.
NoOrder == [permit |-> [deadline |-> U256(0, 0)], outputs |-> <<>>]
NoMetadata == [is_some |-> FALSE, json |-> "", order |-> NoOrder]
OtherMetadata == [is_some |-> TRUE, json |-> "other", order |-> NoOrder]
OrderMetadata(o) == [is_some |-> TRUE, json |-> "SignedOrder", order |-> o]
\* serde_json::from_value::<SignedOrder>(metadata).
FromValue(metadata) ==
    IF metadata.json = "SignedOrder" THEN [ok |-> TRUE, order |-> metadata.order]
    ELSE [ok |-> FALSE, order |-> NoOrder]

\* DeliveryError::Network(msg); the message is kept up to its first variable part.
NetworkError(msg) == [ok |-> FALSE, kind |-> "Network", msg |-> msg, hash |-> <<>>]

\* get_block_number: rpc is what the RPC call answers when it is made
\* ([ok |-> TRUE, block |-> n] or [ok |-> FALSE]).
get_block_number(cfg, network, rpc) ==
    IF network = "ok" /\ rpc.ok THEN rpc.block
    ELSE IF cfg.target_block.is_some THEN cfg.target_block.value
    ELSE DEFAULT_BLOCK_NUMBER

\* create_signed_fills: the distinct destination chain ids of the outputs.
TargetChainIds(order) ==
    {order.outputs[k].chainId : k \in 1..Len(order.outputs)}

\* WithChains with the two order contract addresses swapped.
WithChains_SwappedAddresses(cfg, chain_ids) ==
    [c \in {c \in chain_ids : c = cfg.rollup_chain_id \/ c = cfg.host_chain_id} |->
        IF c = cfg.rollup_chain_id THEN cfg.order_destination_address
        ELSE cfg.order_origin_address]

\* create_signed_fills: the chains the loop passes to with_chain, each with
\* the order contract address the loop picks for it.
WithChains(cfg, chain_ids) ==
    [c \in {c \in chain_ids : c = cfg.rollup_chain_id \/ c = cfg.host_chain_id} |->
        IF c = cfg.rollup_chain_id THEN cfg.order_origin_address
        ELSE cfg.order_destination_address]

\* create_signed_fills: the chains the loop warns about and skips.
Skipped(cfg, chain_ids) ==
    {c \in chain_ids : c # cfg.rollup_chain_id /\ c # cfg.host_chain_id}

\* UnsignedFill::sign, when it succeeds: one SignedFill per configured chain.
sign(uf) ==
    [c \in DOMAIN uf.target_chains |->
        [chain_id |-> c, order_contract |-> uf.target_chains[c],
         deadline |-> uf.deadline,
         outputs |-> SelectSeq(uf.outputs, LAMBDA o : o.chainId = c)]]

\* SignedFill::to_fill_tx(order_origin_address).
to_fill_tx(fill, address) == [kind |-> "fill", to |-> address, payload |-> fill]
\* SignedOrder::to_initiate_tx(filler_recipient, order_origin_address).
to_initiate_tx(order, recipient, address) ==
    [kind |-> "initiate", to |-> address,
     payload |-> [order |-> order, recipient |-> recipient]]

\* RollupTxRequests with the initiation request pushed before the fill request.
RollupTxRequests_InitiateFirst(cfg, order, fills) ==
    <<to_initiate_tx(order, cfg.filler_recipient, cfg.order_origin_address)>>
    \o (IF cfg.rollup_chain_id \in DOMAIN fills
        THEN <<to_fill_tx(fills[cfg.rollup_chain_id], cfg.order_origin_address)>>
        ELSE <<>>)

\* create_bundles, lines 153-168: the rollup transaction requests.
RollupTxRequests(cfg, order, fills) ==
    (IF cfg.rollup_chain_id \in DOMAIN fills
     THEN <<to_fill_tx(fills[cfg.rollup_chain_id], cfg.order_origin_address)>>
     ELSE <<>>)
    \o <<to_initiate_tx(order, cfg.filler_recipient, cfg.order_origin_address)>>

\* The signer's address (PrivateKeySigner::address).
SignerAddress == "0x5f"

\* Values of the call-local variables outside the code that sets them.
NoChains == [c \in {} |-> ""]
NoUnsignedFill ==
    [deadline |-> 0, ru_chain_id |-> 0, target_chains |-> NoChains,
     warned |-> {}, outputs |-> <<>>]
NoFills == [c \in {} |-> <<>>]
NoProvider == [cached |-> FALSE, nonce |-> 0]
\* Option<SignedFill>.
NoFill == [is_some |-> FALSE,
           fill |-> [chain_id |-> 0, order_contract |-> "", deadline |-> 0, outputs |-> <<>>]]
SomeFill(f) == [is_some |-> TRUE, fill |-> f]

\* Result<TransactionHash, DeliveryError> of submit, and the two states of
\* the caller without one.
NoResult == [ok |-> FALSE, kind |-> "none", msg |-> "", hash |-> <<>>]
Pending == [ok |-> FALSE, kind |-> "pending", msg |-> "", hash |-> <<>>]
OkHash(bytes) == [ok |-> TRUE, kind |-> "", msg |-> "", hash |-> bytes]

\* sign_and_encode_txns, lines 267-272: the fields set from the signer and the
\* constants (the priority fee is kept as its two factors).
WithSignerFields(tx) ==
    [kind |-> tx.kind, to |-> tx.to, payload |-> tx.payload,
     from |-> SignerAddress, gas_limit |-> DEFAULT_GAS_LIMIT,
     max_priority_fee_per_gas |-> <<GWEI_TO_WEI, DEFAULT_PRIORITY_FEE_MULTIPLIER>>]

\* provider.fill, when it succeeds: the nonce filler takes the signer's
\* transaction count from the RPC on its first use and counts up from it.
FillNonce(p, count) == IF p.cached THEN p.nonce ELSE count
Filled(tx, nonce) ==
    [kind |-> tx.kind, to |-> tx.to, payload |-> tx.payload, from |-> tx.from,
     gas_limit |-> tx.gas_limit,
     max_priority_fee_per_gas |-> tx.max_priority_fee_per_gas, nonce |-> nonce]

\* Encodable2718::encoded_2718 of the signed EIP-1559 envelope: the type byte,
\* then the fields in their RLP order.
encoded_2718(env) ==
    <<2, env.nonce, env.max_priority_fee_per_gas, env.gas_limit, env.to,
      env.kind, env.payload, env.from>>

\* FanOut with the window starting at the observed block itself.
FanOut_FromCurrentBlock(block, txs, host_fills) ==
    [i \in 1..NUM_TARGET_BLOCKS |->
        [txs |-> txs, block_number |-> block + i - 1, host_fills |-> host_fills,
         host_txs |-> <<>>]]

\* create_bundles, lines 179-212: the fan-out.
FanOut(block, txs, host_fills) ==
    [i \in 1..NUM_TARGET_BLOCKS |->
        [txs |-> txs, block_number |-> block + i, host_fills |-> host_fills,
         host_txs |-> <<>>]]

\* create_bundles, line 179: signed_fills.get(&host_chain_id).cloned().
HostFills(cfg, fills) ==
    IF cfg.host_chain_id \in DOMAIN fills THEN SomeFill(fills[cfg.host_chain_id])
    ELSE NoFill

\* Uuid::to_string, shortened to the hexadecimal digits of the id's number.
UuidToString(id) == Hexadecimal(id)
\* str::as_bytes for the characters of a rendered id.
Ascii(ch) == CASE ch = "0" -> 48 [] ch = "1" -> 49 [] ch = "2" -> 50
               [] ch = "3" -> 51 [] ch = "4" -> 52 [] ch = "5" -> 53
               [] ch = "6" -> 54 [] ch = "7" -> 55 [] ch = "8" -> 56
               [] ch = "9" -> 57 [] ch = "a" -> 97 [] ch = "b" -> 98
               [] ch = "c" -> 99 [] ch = "d" -> 100 [] ch = "e" -> 101
               [] ch = "f" -> 102
as_bytes(s) == [k \in 1..Len(s) |-> Ascii(s[k])]

\* The state after SignetBundleDelivery::new returned Ok(Self) for cfg.
DeliveryConstructed(cfg, nets, count) ==
    /\ DeliveryNew(cfg).ok
    /\ dconfig = cfg
    /\ networks = nets
    /\ chainNonce = count
    /\ cache = <<>>
    /\ dpc = "idle"
    /\ dtx = [metadata |-> NoMetadata]
    /\ signed_order = NoOrder
    /\ current_block = 0
    /\ unsigned_fill = NoUnsignedFill
    /\ signed_fills = NoFills
    /\ tx_requests = <<>>
    /\ provider = NoProvider
    /\ encoded_txs = <<>>
    /\ bundles = <<>>
    /\ last_bundle_id = <<>>
    /\ dres = NoResult
    /\ dcalls = 0
    /\ built = <<>>
    /\ fillHist = <<>>
    /\ forwarded = <<>>
    /\ inflight = {}
    /\ newCall = [component |-> "none", config |-> [chain_name |-> ""],
                  ok |-> FALSE, kind |-> ""]

\* The delivery component of a run that only exercises discovery.
NoDelivery ==
    DeliveryConstructed(
        [chain_name |-> "pecorino", target_block |-> NoBlock,
         rollup_chain_id |-> 901, host_chain_id |-> 1,
         order_origin_address |-> "0x01", order_destination_address |-> "0x02",
         filler_recipient |-> "0x03"], "absent", 0)

instVars == <<dconfig, networks, chainNonce>>
localVars == <<signed_order, current_block, unsigned_fill, signed_fills,
               tx_requests, provider, encoded_txs, bundles, last_bundle_id>>

\* A return from submit: the result, and the locals dropped.
Return(result) ==
    /\ dpc' = "done"
    /\ dres' = result
    /\ signed_order' = NoOrder
    /\ current_block' = 0
    /\ unsigned_fill' = NoUnsignedFill
    /\ signed_fills' = NoFills
    /\ tx_requests' = <<>>
    /\ provider' = NoProvider
    /\ encoded_txs' = <<>>
    /\ bundles' = <<>>
    /\ last_bundle_id' = <<>>

\* SubmitCall taking absent metadata for an order without outputs.
SubmitCall_EmptyOrderOnMissing(tx) ==
    /\ dpc \in {"idle", "done"}
    /\ dcalls < MaxSubmits
    /\ dcalls' = dcalls + 1
    /\ dtx' = tx
    /\ built' = <<>>
    /\ fillHist' = <<>>
    /\ forwarded' = <<>>
    /\ inflight' = {}
    /\ IF tx.metadata.is_some /\ ~FromValue(tx.metadata).ok
       THEN Return(NetworkError("Failed to deserialize SignedOrder from metadata"))
       ELSE /\ signed_order' = IF tx.metadata.is_some
                               THEN FromValue(tx.metadata).order ELSE NoOrder
            /\ dpc' = "get_block_number"
            /\ dres' = Pending
            /\ UNCHANGED <<current_block, unsigned_fill, signed_fills,
                           tx_requests, provider, encoded_txs, bundles,
                           last_bundle_id>>
    /\ UNCHANGED <<discoveryVars, instVars, cache, newCall>>

\* submit, line 435, into create_bundles, lines 123-145: the metadata is read
\* and deserialized.
SubmitCall(tx) ==
    /\ dpc \in {"idle", "done"}
    /\ dcalls < MaxSubmits
    /\ dcalls' = dcalls + 1
    /\ dtx' = tx
    /\ built' = <<>>
    /\ fillHist' = <<>>
    /\ forwarded' = <<>>
    /\ inflight' = {}
    /\ IF ~tx.metadata.is_some
       THEN Return(NetworkError("No SignedOrder metadata in transaction for Signet bundle"))
       ELSE IF ~FromValue(tx.metadata).ok
       THEN Return(NetworkError("Failed to deserialize SignedOrder from metadata"))
       ELSE /\ signed_order' = FromValue(tx.metadata).order
            /\ dpc' = "get_block_number"
            /\ dres' = Pending
            /\ UNCHANGED <<current_block, unsigned_fill, signed_fills,
                           tx_requests, provider, encoded_txs, bundles,
                           last_bundle_id>>
    /\ UNCHANGED <<discoveryVars, instVars, cache, newCall>>

\* get_block_number propagating a failed lookup (`?` instead of the fallback):
\* the submit call fails.
GetBlockNumber_FailsOnLookupError(rpc) ==
    /\ dpc = "get_block_number"
    /\ IF networks = "ok" /\ ~rpc.ok
       THEN /\ Return(NetworkError("Failed to get block number"))
            /\ UNCHANGED <<discoveryVars, instVars, cache, dtx, dcalls, built,
                           fillHist, forwarded, inflight, newCall>>
       ELSE /\ current_block' = get_block_number(dconfig, networks, rpc)
            /\ dpc' = "create_signed_fills"
            /\ UNCHANGED <<discoveryVars, instVars, cache, dtx, signed_order,
                           unsigned_fill, signed_fills, tx_requests, provider,
                           encoded_txs, bundles, last_bundle_id, dres, dcalls, built,
                           fillHist, forwarded, inflight, newCall>>

\* create_bundles, line 148.
GetBlockNumber(rpc) ==
    /\ dpc = "get_block_number"
    /\ current_block' = get_block_number(dconfig, networks, rpc)
    /\ dpc' = "create_signed_fills"
    /\ UNCHANGED <<discoveryVars, instVars, cache, dtx, signed_order,
                   unsigned_fill, signed_fills, tx_requests, provider,
                   encoded_txs, bundles, last_bundle_id, dres, dcalls, built,
                   fillHist, forwarded, inflight, newCall>>

\* create_signed_fills, lines 309-360: the deadline, the target chain ids and
\* the with_chain loop.
CreateSignedFillsConfigure ==
    /\ dpc = "create_signed_fills"
    /\ LET deadline == ParseU64(signed_order.permit.deadline)
       IN IF ~deadline.ok
          THEN Return(NetworkError("Invalid deadline in order permit"))
          ELSE /\ unsigned_fill' =
                      [deadline |-> deadline.value,
                       ru_chain_id |-> dconfig.rollup_chain_id,
                       target_chains |-> WithChains(dconfig, TargetChainIds(signed_order)),
                       warned |-> Skipped(dconfig, TargetChainIds(signed_order)),
                       outputs |-> signed_order.outputs]
               /\ dpc' = "sign"
               /\ UNCHANGED <<signed_order, current_block, signed_fills,
                              tx_requests, provider, encoded_txs, bundles,
                              last_bundle_id, dres>>
    /\ UNCHANGED <<discoveryVars, instVars, cache, dtx, dcalls, built,
                   fillHist, forwarded, inflight, newCall>>

\* create_signed_fills, lines 363-374: the external signing succeeds or fails.
CreateSignedFillsSign(signs) ==
    /\ dpc = "sign"
    /\ IF ~signs
       THEN Return(NetworkError("Failed to sign fills"))
       ELSE /\ signed_fills' = sign(unsigned_fill)
            /\ dpc' = "sign_and_encode_txns"
            /\ UNCHANGED <<signed_order, current_block, unsigned_fill,
                           tx_requests, provider, encoded_txs, bundles,
                           last_bundle_id, dres>>
    /\ UNCHANGED <<discoveryVars, instVars, cache, dtx, dcalls, built,
                   fillHist, forwarded, inflight, newCall>>

\* create_bundles, lines 153-171, into sign_and_encode_txns, lines 231-261:
\* the requests are collected and the provider is built.
SignAndEncodeBegin ==
    /\ dpc = "sign_and_encode_txns"
    /\ IF networks = "absent"
       THEN Return(NetworkError("No network config for rollup chain"))
       ELSE IF networks = "no_http"
       THEN Return(NetworkError("No HTTP RPC URL for chain"))
       ELSE IF networks = "bad_url"
       THEN Return(NetworkError("Invalid RPC URL"))
       ELSE /\ tx_requests' = RollupTxRequests(dconfig, signed_order, signed_fills)
            /\ provider' = NoProvider
            /\ encoded_txs' = <<>>
            /\ dpc' = "fill"
            /\ UNCHANGED <<signed_order, current_block, unsigned_fill,
                           signed_fills, bundles, last_bundle_id, dres>>
    /\ UNCHANGED <<discoveryVars, instVars, cache, dtx, dcalls, built,
                   fillHist, forwarded, inflight, newCall>>

\* What provider.fill answers: a signed envelope, an error, or a builder that
\* is not an envelope.
FillAnswers == {"envelope", "error", "builder"}

\* FillAndEncode with a nonce filler that asks the RPC for the transaction
\* count on every fill.
FillAndEncode_RefetchesNonce(answer) ==
    /\ dpc = "fill"
    /\ tx_requests # <<>>
    /\ fillHist' = Append(fillHist, answer)
    /\ IF answer = "error"
       THEN Return(NetworkError("Failed to fill transaction"))
       ELSE IF answer = "builder"
       THEN Return(NetworkError("Expected transaction envelope from provider.fill()"))
       ELSE LET nonce == chainNonce
                tx == WithSignerFields(Head(tx_requests))
            IN /\ encoded_txs' = Append(encoded_txs, encoded_2718(Filled(tx, nonce)))
               /\ provider' = [cached |-> TRUE, nonce |-> nonce + 1]
               /\ tx_requests' = Tail(tx_requests)
               /\ UNCHANGED <<dpc, signed_order, current_block, unsigned_fill,
                              signed_fills, bundles, last_bundle_id, dres>>
    /\ UNCHANGED <<discoveryVars, instVars, cache, dtx, dcalls, built,
                   forwarded, inflight, newCall>>

\* FillAndEncode going on to the next request after a failed one.
FillAndEncode_SkipsFailed(answer) ==
    /\ dpc = "fill"
    /\ tx_requests # <<>>
    /\ fillHist' = Append(fillHist, answer)
    /\ tx_requests' = Tail(tx_requests)
    /\ IF answer # "envelope"
       THEN UNCHANGED <<encoded_txs, provider>>
       ELSE LET nonce == FillNonce(provider, chainNonce)
                tx == WithSignerFields(Head(tx_requests))
            IN /\ encoded_txs' = Append(encoded_txs, encoded_2718(Filled(tx, nonce)))
               /\ provider' = [cached |-> TRUE, nonce |-> nonce + 1]
    /\ UNCHANGED <<dpc, signed_order, current_block, unsigned_fill,
                   signed_fills, bundles, last_bundle_id, dres>>
    /\ UNCHANGED <<discoveryVars, instVars, cache, dtx, dcalls, built,
                   forwarded, inflight, newCall>>

\* sign_and_encode_txns, lines 264-292: one turn of the loop.
FillAndEncode(answer) ==
    /\ dpc = "fill"
    /\ tx_requests # <<>>
    /\ fillHist' = Append(fillHist, answer)
    /\ IF answer = "error"
       THEN Return(NetworkError("Failed to fill transaction"))
       ELSE IF answer = "builder"
       THEN Return(NetworkError("Expected transaction envelope from provider.fill()"))
       ELSE LET nonce == FillNonce(provider, chainNonce)
                tx == WithSignerFields(Head(tx_requests))
            IN /\ encoded_txs' = Append(encoded_txs, encoded_2718(Filled(tx, nonce)))
               /\ provider' = [cached |-> TRUE, nonce |-> nonce + 1]
               /\ tx_requests' = Tail(tx_requests)
               /\ UNCHANGED <<dpc, signed_order, current_block, unsigned_fill,
                              signed_fills, bundles, last_bundle_id, dres>>
    /\ UNCHANGED <<discoveryVars, instVars, cache, dtx, dcalls, built,
                   forwarded, inflight, newCall>>

\* sign_and_encode_txns, line 294, back in create_bundles, lines 173-214, and
\* in submit, lines 437-438.
CreateBundles ==
    /\ dpc = "fill"
    /\ tx_requests = <<>>
    /\ bundles' = FanOut(current_block, encoded_txs, HostFills(dconfig, signed_fills))
    /\ built' = bundles'
    /\ last_bundle_id' = <<>>
    /\ dpc' = "forward_bundle"
    /\ UNCHANGED <<discoveryVars, instVars, cache, dtx, signed_order,
                   current_block, unsigned_fill, signed_fills, tx_requests,
                   provider, encoded_txs, dres, dcalls, fillHist, forwarded, inflight,
                   newCall>>

\* Every bundle passed to the cache at once (the calls joined instead of
\* awaited one by one).
ForwardBundleSend_All ==
    /\ dpc = "forward_bundle"
    /\ bundles # <<>>
    /\ inflight' = {bundles[k] : k \in DOMAIN bundles}
    /\ dpc' = "forwarding"
    /\ UNCHANGED <<discoveryVars, instVars, cache, dtx, localVars, dres, dcalls,
                   built, fillHist, forwarded, newCall>>

\* submit, lines 447-456: one turn of the loop up to the await; the next
\* bundle is passed to tx_cache.forward_bundle.
ForwardBundleSend ==
    /\ dpc = "forward_bundle"
    /\ bundles # <<>>
    /\ inflight' = inflight \cup {Head(bundles)}
    /\ dpc' = "forwarding"
    /\ UNCHANGED <<discoveryVars, instVars, cache, dtx, localVars, dres, dcalls,
                   built, fillHist, forwarded, newCall>>

\* ForwardBundle going on to the next bundle after a rejection.
ForwardBundle_SkipsRejected(accepts) ==
    /\ dpc = "forwarding"
    /\ inflight' = inflight \ {Head(bundles)}
    /\ LET bundle == Head(bundles)
           id == Len(cache) + 1
       IN IF accepts
          THEN /\ cache' = Append(cache, [bundle |-> bundle, id |-> id])
               /\ forwarded' = Append(forwarded, [bundle |-> bundle, accepted |-> TRUE, id |-> id])
               /\ last_bundle_id' = UuidToString(id)
          ELSE /\ forwarded' = Append(forwarded, [bundle |-> bundle, accepted |-> FALSE, id |-> 0])
               /\ UNCHANGED <<cache, last_bundle_id>>
    /\ bundles' = Tail(bundles)
    /\ dpc' = "forward_bundle"
    /\ UNCHANGED <<signed_order, current_block, unsigned_fill,
                   signed_fills, tx_requests, provider, encoded_txs, dres>>
    /\ UNCHANGED <<discoveryVars, instVars, dtx, dcalls, built, fillHist,
                   newCall>>

\* ForwardBundle keeping the first acknowledged id.
ForwardBundle_KeepsFirstId(accepts) ==
    /\ dpc = "forwarding"
    /\ inflight' = inflight \ {Head(bundles)}
    /\ LET bundle == Head(bundles)
           id == Len(cache) + 1
       IN IF accepts
          THEN /\ cache' = Append(cache, [bundle |-> bundle, id |-> id])
               /\ forwarded' = Append(forwarded, [bundle |-> bundle, accepted |-> TRUE, id |-> id])
               /\ last_bundle_id' = IF last_bundle_id = <<>> THEN UuidToString(id)
                                    ELSE last_bundle_id
               /\ bundles' = Tail(bundles)
               /\ dpc' = "forward_bundle"
               /\ UNCHANGED <<signed_order, current_block, unsigned_fill,
                              signed_fills, tx_requests, provider, encoded_txs,
                              dres>>
          ELSE /\ forwarded' = Append(forwarded, [bundle |-> bundle, accepted |-> FALSE, id |-> 0])
               /\ Return(NetworkError("Failed to submit bundle for block"))
               /\ UNCHANGED cache
    /\ UNCHANGED <<discoveryVars, instVars, dtx, dcalls, built, fillHist,
                   newCall>>

\* submit, lines 453-479: the answer to the forward_bundle call in flight; the
\* cache accepts the bundle and answers a fresh id, or rejects it.
ForwardBundle(accepts) ==
    /\ dpc = "forwarding"
    /\ inflight' = inflight \ {Head(bundles)}
    /\ LET bundle == Head(bundles)
           id == Len(cache) + 1
       IN IF accepts
          THEN /\ cache' = Append(cache, [bundle |-> bundle, id |-> id])
               /\ forwarded' = Append(forwarded, [bundle |-> bundle, accepted |-> TRUE, id |-> id])
               /\ last_bundle_id' = UuidToString(id)
               /\ bundles' = Tail(bundles)
               /\ dpc' = "forward_bundle"
               /\ UNCHANGED <<signed_order, current_block, unsigned_fill,
                              signed_fills, tx_requests, provider, encoded_txs,
                              dres>>
          ELSE /\ forwarded' = Append(forwarded, [bundle |-> bundle, accepted |-> FALSE, id |-> 0])
               /\ Return(NetworkError("Failed to submit bundle for block"))
               /\ UNCHANGED cache
    /\ UNCHANGED <<discoveryVars, instVars, dtx, dcalls, built, fillHist,
                   newCall>>

\* submit, lines 482-483.
SubmitReturn ==
    /\ dpc = "forward_bundle"
    /\ bundles = <<>>
    /\ Return(OkHash(as_bytes(last_bundle_id)))
    /\ UNCHANGED <<discoveryVars, instVars, cache, dtx, dcalls, built,
                   fillHist, forwarded, inflight, newCall>>

\* ---------------------------------------------------------- specifications

\* Configurations of the concurrent specification.
Configs ==
    ConfigInputs({"", "pecorino", "bad name"}, {0, 5, 301}, {NoWhitelist})

\* What get_orders() returns under the concurrent specification.
FetchResultsSmall == SeqsUpTo({o \in Orders : o.nonce = 2}, 1)

Init == NoDelivery /\ \E cfg \in Configs : Constructed(cfg)

CallerStep(c, maxStarts) ==
    \/ StartCheck(c, maxStarts)
    \/ StartSignal(c)
    \/ StartSpawn(c)
    \/ StartHandle(c)
    \/ StartFlag(c)
    \/ StopCheck(c)
    \/ StopSignal(c)
    \/ StopLock(c)
    \/ StopAwait(c)
    \/ StopFlag(c)

\* Any interleaving of concurrent callers, polling tasks and consumers.
Next ==
    \/ \E c \in Callers : CallerStep(c, MaxStarts)
    \/ \E i \in Ids : TaskInit(i)
    \/ \E i \in Ids : TaskTick(i, MaxTicks)
    \/ \E i \in Ids : \E orders \in FetchResultsSmall : TaskFetchOk(i, orders)
    \/ \E i \in Ids : TaskFetchErr(i)
    \/ \E i \in Ids : TaskProcess(i)
    \/ \E i \in Ids : TaskStop(i)
    \/ \E i \in Ids : CloseReceiver(i)

Spec == Init /\ [][Next]_vars

\* Sequential histories: one caller, so a call begins only after the
\* previous one returned; richer configurations, fetch results and a clock.
SeqCallers == {1}

ConfigsSeq ==
    ConfigInputs({"", "hoodi", "bad name"}, {0, 300, 301},
                 {NoWhitelist, SomeWhitelist(<<"0xB">>)})

InitSeq == NoDelivery /\ \E cfg \in ConfigsSeq : Constructed(cfg)

NextSeq ==
    \/ \E c \in SeqCallers : CallerStep(c, MaxStartsSeq)
    \/ \E i \in Ids : TaskInit(i)
    \/ \E i \in Ids : TaskTick(i, MaxTicksSeq)
    \/ \E i \in Ids : \E orders \in FetchResults : TaskFetchOk(i, orders)
    \/ \E i \in Ids : TaskFetchErr(i)
    \/ \E i \in Ids : TaskProcess(i)
    \/ \E i \in Ids : TaskStop(i)
    \/ \E i \in Ids : CloseReceiver(i)
    \/ AdvanceClock

SpecSeq == InitSeq /\ [][NextSeq]_vars

\* Sequential histories of one valid configuration under every kind of
\* whitelist: absent, empty, one that holds the owner of the orders and one
\* that does not.
ConfigsWhitelist ==
    ConfigInputs({"hoodi"}, {300},
                 {NoWhitelist, SomeWhitelist(<<>>), SomeWhitelist(<<"0xA">>),
                  SomeWhitelist(<<"0xB", "0xC">>)})

InitWhitelist == NoDelivery /\ \E cfg \in ConfigsWhitelist : Constructed(cfg)

SpecWhitelist == InitWhitelist /\ [][NextSeq]_vars

\* Repeated sessions: one caller, so the calls follow one another, and as
\* many sessions as the concurrent specification allows.
NextRepeat ==
    \/ \E c \in SeqCallers : CallerStep(c, MaxStarts)
    \/ \E i \in Ids : TaskInit(i)
    \/ \E i \in Ids : TaskTick(i, MaxTicks)
    \/ \E i \in Ids : \E orders \in FetchResultsSmall : TaskFetchOk(i, orders)
    \/ \E i \in Ids : TaskFetchErr(i)
    \/ \E i \in Ids : TaskProcess(i)
    \/ \E i \in Ids : TaskStop(i)
    \/ \E i \in Ids : CloseReceiver(i)

SpecRepeat == Init /\ [][NextRepeat]_vars

\* Concurrent callers under fair scheduling. A call that has begun and can
\* take its next step takes it, a task that can run runs, and every fetch
\* completes; whether and when a caller begins a further call is left open.
NextFair ==
    \/ \E c \in Callers : CallerStep(c, MaxStarts)
    \/ \E i \in Ids : TaskInit(i)
    \/ \E i \in Ids : TaskTick(i, MaxTicks)
    \/ \E i \in Ids : \E orders \in FetchResultsSmall : TaskFetchOk(i, orders)
    \/ \E i \in Ids : TaskFetchErr(i)
    \/ \E i \in Ids : TaskProcess(i)
    \/ \E i \in Ids : TaskStop(i)

CallProgress(c) ==
    \/ StartSignal(c)
    \/ StartSpawn(c)
    \/ StartHandle(c)
    \/ StartFlag(c)
    \/ StopSignal(c)
    \/ StopLock(c)
    \/ StopAwait(c)
    \/ StopFlag(c)

TaskProgress(i) ==
    \/ TaskInit(i)
    \/ \E orders \in FetchResultsSmall : TaskFetchOk(i, orders)
    \/ TaskFetchErr(i)
    \/ TaskProcess(i)
    \/ TaskStop(i)

SpecFair ==
    /\ Init
    /\ [][NextFair]_vars
    /\ \A c \in Callers : WF_vars(CallProgress(c))
    /\ \A i \in Ids : WF_vars(TaskProgress(i))

\* One delivery component and one caller of submit; the discovery component
\* is left alone.
DeliveryConfigs ==
    DeliveryConfigInputs({"", "pecorino", "hoodi"}, {NoBlock, SomeBlock(100)},
                         {901}, {1, 901}, {"0x01"}, {"0x02"})

\* The transactions passed to submit.
Txs ==
    {[metadata |-> NoMetadata], [metadata |-> OtherMetadata]}
    \cup {[metadata |-> OrderMetadata(o)] : o \in SignedOrders}

\* What the rollup RPC answers to eth_blockNumber.
RpcAnswers == {[ok |-> FALSE, block |-> 0], [ok |-> TRUE, block |-> 7]}

\* Transaction counts of the signer's address at the rollup RPC.
ChainNonces == {0, 5}

InitDelivery ==
    /\ Constructed([chain_name |-> "pecorino", polling_interval_secs |-> 5,
                    whitelist_addresses |-> NoWhitelist])
    /\ \E cfg \in DeliveryConfigs : \E nets \in NetworkStates :
       \E count \in ChainNonces : DeliveryConstructed(cfg, nets, count)

NextDelivery ==
    \/ \E tx \in Txs : SubmitCall(tx)
    \/ \E rpc \in RpcAnswers : GetBlockNumber(rpc)
    \/ CreateSignedFillsConfigure
    \/ \E signs \in BOOLEAN : CreateSignedFillsSign(signs)
    \/ SignAndEncodeBegin
    \/ \E answer \in FillAnswers : FillAndEncode(answer)
    \/ CreateBundles
    \/ ForwardBundleSend
    \/ \E accepts \in BOOLEAN : ForwardBundle(accepts)
    \/ SubmitReturn

SpecDelivery == InitDelivery /\ [][NextDelivery]_vars

\* A call of SignetCacheDiscovery::new; the instances that exist are not
\* touched by it.
NewDiscoveryCall(cfg) ==
    /\ newCall' = [component |-> "discovery", config |-> cfg,
                   ok |-> (New(cfg) = "Ok"),
                   kind |-> IF New(cfg) = "Ok" THEN "" ELSE New(cfg)]
    /\ UNCHANGED <<discoveryVars, instVars, cache, dpc, dtx, localVars, dres,
                   dcalls, built, fillHist, forwarded, inflight>>

\* A call of SignetBundleDelivery::new.
NewDeliveryCall(cfg) ==
    /\ newCall' = [component |-> "delivery", config |-> cfg,
                   ok |-> DeliveryNew(cfg).ok, kind |-> DeliveryNew(cfg).kind]
    /\ UNCHANGED <<discoveryVars, instVars, cache, dpc, dtx, localVars, dres,
                   dcalls, built, fillHist, forwarded, inflight>>

\* Constructor calls, over configurations with and without a chain name.
NewDiscoveryInputs ==
    ConfigInputs({"", "pecorino", "bad name"}, {0, 5, 301},
                 {NoWhitelist, SomeWhitelist(<<"0xB">>)})

NewDeliveryInputs ==
    DeliveryConfigInputs({"", "pecorino", "bad name"},
                         {NoBlock, SomeBlock(0), SomeBlock(100)}, {1, 901},
                         {1, 901}, {"0x01", "0x02"}, {"0x01", "0x02"})

InitNew ==
    /\ NoDelivery
    /\ Constructed([chain_name |-> "pecorino", polling_interval_secs |-> 5,
                    whitelist_addresses |-> NoWhitelist])

NextNew ==
    \/ \E cfg \in NewDiscoveryInputs : NewDiscoveryCall(cfg)
    \/ \E cfg \in NewDeliveryInputs : NewDeliveryCall(cfg)

SpecNew == InitNew /\ [][NextNew]_vars


\* ------------------------------------------------------------------ claims

\* C1: a start_monitoring call made while the instance is Monitoring (a start
\* returned Ok and no stop has returned since) returns AlreadyMonitoring,
\* spawns no polling task and creates no channel, and leaves the stored task
\* handle, the stored stop sender and the monitoring flag unchanged. Checked
\* under every interleaving, which includes the sequential histories.
C1_StartWhileMonitoringFails ==
    [][\A c \in Callers :
          (lifecycle = "Monitoring" /\ StartCheck(c, MaxStarts)) =>
              /\ cres'[c] = "AlreadyMonitoring"
              /\ cpc'[c] = "idle"
              /\ UNCHANGED <<is_monitoring, stop_signal, monitoring_handle, tpc, chan>>]_vars

\* C1 witness: a start call has returned AlreadyMonitoring on a Monitoring
\* instance whose polling task is running.
C1_Witness ==
    \E c \in Callers :
        /\ ccall[c] = "start"
        /\ cres[c] = "AlreadyMonitoring"
        /\ lifecycle = "Monitoring"
        /\ \E i \in Ids : Live(i) /\ monitoring_handle = i

\* C2: at most one polling task spawned by the instance is live (spawned and
\* not yet exited) in every reachable state.
C2_AtMostOneLiveTask ==
    Cardinality({i \in Ids : Live(i)}) <= 1

\* C3: of two start_monitoring calls that overlap in time, with no
\* stop_monitoring call overlapping them, never both return Ok: a start call
\* during which another start call returned Ok does not return Ok itself.
C3_OverlappingStartsNotBothOk ==
    \A c \in Callers :
        ~(ccall[c] = "start" /\ cres[c] = "Ok" /\ raced[c] = "yes")

\* C4: when a stop_monitoring call that found the instance Monitoring returns
\* Ok, every polling task spawned before that call began has exited.
C4_StopReturnsAfterTasksExited ==
    [][\A c \in Callers :
          StopFlag(c) => \A i \in atBegin[c] : tpc[i] = "exited"]_vars

\* C5: in a sequential history, stop_monitoring called on an Idle instance
\* (before any start, or after a completed stop) returns Ok at once, sends no
\* signal, awaits nothing, and leaves the flag false and the stored handle
\* and stop sender empty.
C5_StopOnIdleIsNoOp ==
    [][\A c \in Callers :
          (lifecycle = "Idle" /\ StopCheck(c)) =>
              /\ cres'[c] = "Ok"
              /\ cpc'[c] = "idle"
              /\ UNCHANGED <<chan, tpc>>
              /\ is_monitoring' = FALSE
              /\ monitoring_handle' = None
              /\ stop_signal' = None]_vars

\* C5 witness: a stop call returned Ok without finding the flag set, on an
\* instance whose earlier session was stopped by a completed stop call.
C5_Witness ==
    \E c \in Callers :
        /\ ccall[c] = "stop"
        /\ cres[c] = "Ok"
        /\ atBegin[c] = {}
        /\ \E i \in Ids : tpc[i] = "exited" /\ chan[i] = "signalled"

\* The permits of the source orders of the intents delivered by session i.
SentPermits(i) == [k \in 1..Len(out[i]) |-> out[i][k].data.permit]

IsPrefix(s, t) == Len(s) <= Len(t) /\ SubSeq(t, 1, Len(s)) = s

\* A task that has exited had its stop receiver resolved or no cache client.
ExitExplained(i) ==
    \/ ~ClientBuilds(config.chain_name)
    \/ chan[i] \in {"signalled", "closed"}

C7_IntentsInFetchOrder ==
    \A i \in Ids :
        IF rxOpen[i]
        THEN SentPermits(i) \o SerializablePermits(queue[i]) = expected[i]
        ELSE IsPrefix(SentPermits(i), expected[i])

\* C7 witness: a session delivered intents of two ticks, the first two of
\* different orders.
C7_Witness ==
    \E i \in Ids :
        /\ rxOpen[i]
        /\ fetchHist[i] = <<"ok", "ok">>
        /\ Len(out[i]) >= 3
        /\ out[i][1].data.permit # out[i][2].data.permit

\* C8: when a tick's fetch fails no intent is sent for that tick and the task
\* is back at its select with nothing left to process, where the timer arm
\* starts the next fetch; and the orders of the successful fetches of a
\* session that had failures are forwarded as in C7, the failed ticks
\* contributing nothing.
C8_FetchFailureSkipsTick ==
    /\ [][\A i \in Ids :
             (tpc[i] = "fetching" /\ fetchHist'[i] = Append(fetchHist[i], "err")) =>
                 /\ out' = out
                 /\ tpc'[i] = "select"
                 /\ queue'[i] = <<>>]_vars
    /\ [](\A i \in Ids :
             (fetchHist[i] # <<>> /\ fetchHist[i][Len(fetchHist[i])] = "err") =>
                 /\ tpc[i] = "select" => (Len(fetchHist[i]) < MaxTicksSeq => ENABLED TaskTick(i, MaxTicksSeq))
                 /\ tpc[i] = "exited" => ExitExplained(i))
    /\ [](\A i \in Ids :
             (\E k \in 1..Len(fetchHist[i]) : fetchHist[i][k] = "err") =>
                 IF rxOpen[i]
                 THEN SentPermits(i) \o SerializablePermits(queue[i]) = expected[i]
                 ELSE IsPrefix(SentPermits(i), expected[i]))

\* C8 witness: a session whose first fetch failed delivered the orders of its
\* second fetch.
C8_Witness ==
    \E i \in Ids :
        /\ fetchHist[i] = <<"err", "ok">>
        /\ Len(out[i]) = 2
        /\ tpc[i] = "select"

\* C9: when the send of an intent fails because the consumer is gone, the
\* task does not exit: it goes on with the remaining orders of the tick, goes
\* back to its select after the last one, can fetch again there, and exits
\* there once the stop signal has been sent.
C9_SendFailureKeepsTaskAlive ==
    /\ [][\A i \in Ids :
             (/\ tpc[i] = "processing"
              /\ ~rxOpen[i]
              /\ Head(queue[i]).serializable
              /\ queue'[i] # queue[i]) =>
                 /\ queue'[i] = Tail(queue[i])
                 /\ tpc'[i] = (IF Tail(queue[i]) = <<>> THEN "select" ELSE "processing")]_vars
    /\ [](\A i \in Ids :
             ~rxOpen[i] =>
                 /\ tpc[i] = "exited" => ExitExplained(i)
                 /\ (tpc[i] = "select" /\ Len(fetchHist[i]) < MaxTicksSeq) => ENABLED TaskTick(i, MaxTicksSeq)
                 /\ (tpc[i] = "select" /\ chan[i] = "signalled") => ENABLED TaskStop(i))

\* C9 witness: a session whose sends failed (fewer intents delivered than
\* serializable orders processed) fetched twice and exited on the stop signal.
C9_Witness ==
    \E i \in Ids :
        /\ ~rxOpen[i]
        /\ tpc[i] = "exited"
        /\ chan[i] = "signalled"
        /\ Len(fetchHist[i]) = 2
        /\ Len(out[i]) < Len(expected[i])

\* "signet-{n}" for the nonces of the model, written out.
SignetId(n) == CASE n = 2 -> <<"signet-", "2">> [] n = 12 -> <<"signet-", "1", "2">>

\* Every intent delivered by any session.
Delivered == UNION {{out[i][k] : k \in 1..Len(out[i])} : i \in Ids}

\* C10: the id of the intent converted from an order with permit nonce n is
\* "signet-" followed by the decimal digits of n; conversions of the same
\* order at different times give the same id, and two intents have the same
\* id if and only if their orders' permit nonces are equal.
C10_IntentIdFromNonce ==
    /\ \A x \in Delivered : x.id = SignetId(x.data.permit.nonce)
    /\ \A x \in Delivered : \A y \in Delivered :
           (x.id = y.id) <=> (x.data.permit.nonce = y.data.permit.nonce)

\* C10 witness: one session delivered two conversions of the same order made
\* at different times, and an intent of an order with another nonce.
C10_Witness ==
    \E x \in Delivered : \E y \in Delivered : \E z \in Delivered :
        /\ x.data = y.data
        /\ x.discovered_at # y.discovered_at
        /\ z.data.permit.nonce # x.data.permit.nonce
        /\ x.data.permit.nonce = 12

\* ---------------------------------------------------------- delivery claims

\* Readers of an encoded transaction (the positions encoded_2718 writes).
TxNonce(encoded) == encoded[2]
TxKind(encoded) == encoded[6]
TxPayload(encoded) == encoded[7]

\* C11: for a transaction with a valid order payload and observed rollup
\* block b, create_bundles returns exactly 10 bundles whose target blocks are
\* b+1, b+2, ..., b+10 in that order, all carrying the same rollup transaction
\* list (the one sign_and_encode_txns returned) and the same host fill, and no
\* host transactions.
C11_TenBundlesForConsecutiveBlocks ==
    dpc = "forward_bundle" =>
        /\ Len(built) = 10
        /\ \A i \in 1..Len(built) :
            /\ built[i].block_number = current_block + i
            /\ built[i].txs = encoded_txs
            /\ built[i].txs = built[1].txs
            /\ built[i].host_fills = built[1].host_fills
            /\ built[i].host_txs = <<>>
        /\ \A i \in 1..(Len(built) - 1) :
            built[i + 1].block_number = built[i].block_number + 1

\* C11 witness: create_bundles returned for an order with a rollup and a host
\* output after the RPC answered block 7: the first bundle targets block 8,
\* the last block 17, each with two rollup transactions and a host fill.
C11_Witness ==
    /\ dpc = "forward_bundle"
    /\ current_block = 7
    /\ Len(built) = 10
    /\ built[1].block_number = 8
    /\ built[10].block_number = 17
    /\ Len(built[10].txs) = 2
    /\ built[10].host_fills.is_some

\* C12: in every bundle create_bundles produced, the rollup transaction list
\* ends with the order-initiation transaction; when a signed fill exists for
\* the rollup chain the list has length 2, the fill transaction (of that
\* fill) first and the initiation transaction second, and when no rollup fill
\* exists the list has length 1, the initiation transaction alone.
C12_FillThenInitiate ==
    dpc = "forward_bundle" =>
        \A i \in 1..Len(built) :
            LET txs == built[i].txs
            IN /\ Len(txs) >= 1
               /\ TxKind(txs[Len(txs)]) = "initiate"
               /\ TxPayload(txs[Len(txs)]).order = dtx.metadata.order
               /\ IF dconfig.rollup_chain_id \in DOMAIN signed_fills
                  THEN /\ Len(txs) = 2
                       /\ TxKind(txs[1]) = "fill"
                       /\ TxPayload(txs[1]) = signed_fills[dconfig.rollup_chain_id]
                  ELSE Len(txs) = 1

\* C12 witness: bundles built for an order with a rollup output carry the
\* fill transaction and then the initiation transaction.
C12_Witness ==
    /\ dpc = "forward_bundle"
    /\ dconfig.rollup_chain_id \in DOMAIN signed_fills
    /\ Len(built) = 10
    /\ Len(built[1].txs) = 2
    /\ TxKind(built[1].txs[1]) = "fill"
    /\ TxKind(built[1].txs[2]) = "initiate"

\* The bundles of the cache's last n entries, in the order it accepted them.
LastAccepted(n) ==
    [j \in 1..n |-> cache[Len(cache) - n + j].bundle]

\* C13: if the cache rejects the k-th bundle of a submit call, the call has
\* returned an error and no success value or bundle id; the rejected bundle
\* is the last one the call forwarded (bundles k+1..10 are never sent); and
\* bundles 1..k-1, in order, were accepted and are still the last k-1 entries
\* of the cache.
C13_RejectionAbortsSubmit ==
    \A k \in 1..Len(forwarded) :
        ~forwarded[k].accepted =>
            /\ k = Len(forwarded)
            /\ k <= 10
            /\ dpc = "done"
            /\ ~dres.ok
            /\ dres.kind = "Network"
            /\ dres.hash = <<>>
            /\ \A j \in 1..k : forwarded[j].bundle = built[j]
            /\ \A j \in 1..(k - 1) : forwarded[j].accepted
            /\ Len(cache) >= k - 1
            /\ LastAccepted(k - 1) = SubSeq(built, 1, k - 1)

\* C13 witness: the cache accepted two bundles and rejected the third; the
\* call returned an error with the two bundles left in the cache.
C13_Witness ==
    /\ dpc = "done"
    /\ Len(forwarded) = 3
    /\ forwarded[1].accepted
    /\ forwarded[2].accepted
    /\ ~forwarded[3].accepted
    /\ Len(cache) = 2
    /\ ~dres.ok

\* C14: when the cache accepted every bundle of a submit call, the call
\* returns Ok with the bytes of the id the cache answered for the last
\* bundle, the one targeting the observed block + 10 (nine blocks after the
\* first bundle's); the value is not empty and is not that of an id answered
\* for an earlier bundle. And Ok is returned in no other case.
C14_ReturnsLastBundleId ==
    dpc = "done" =>
        /\ (Len(forwarded) = 10 /\ \A j \in 1..10 : forwarded[j].accepted) =>
            /\ dres.ok
            /\ dres.hash = as_bytes(UuidToString(forwarded[10].id))
            /\ dres.hash # <<>>
            /\ forwarded[10].bundle = built[10]
            /\ forwarded[10].bundle.block_number = built[1].block_number + 9
            /\ cache[Len(cache)] = [bundle |-> built[10], id |-> forwarded[10].id]
            /\ \A j \in 1..9 :
                dres.hash # as_bytes(UuidToString(forwarded[j].id))
        /\ dres.ok =>
            /\ Len(forwarded) = 10
            /\ \A j \in 1..10 : forwarded[j].accepted

\* C14 witness: all ten bundles were accepted after the RPC answered block 7;
\* the cache answered ids 1..10 and the call returned the bytes of "a", the
\* rendering of id 10, which it answered for the bundle targeting block 17.
C14_Witness ==
    /\ dpc = "done"
    /\ dres.ok
    /\ Len(forwarded) = 10
    /\ forwarded[10].id = 10
    /\ forwarded[10].bundle.block_number = 17
    /\ dres.hash = <<97>>

\* C15: a submit call on a transaction without order metadata has returned,
\* as soon as it has taken a step, the "no SignedOrder metadata" error: no
\* bundle was built, no transaction was passed to the provider to be signed,
\* no fill was signed, and nothing was forwarded to the cache, which holds
\* what it held before the call.
C15_NoMetadataNoSubmission ==
    (dcalls > 0 /\ ~dtx.metadata.is_some) =>
        /\ dpc = "done"
        /\ ~dres.ok
        /\ dres.kind = "Network"
        /\ dres.msg = "No SignedOrder metadata in transaction for Signet bundle"
        /\ dres.hash = <<>>
        /\ built = <<>>
        /\ fillHist = <<>>
        /\ forwarded = <<>>
        /\ signed_fills = NoFills
        /\ (dcalls = 1 => cache = <<>>)

\* C15 witness: submit returned the error for a transaction whose metadata
\* is None.
C15_Witness ==
    /\ dcalls = 1
    /\ dpc = "done"
    /\ dtx = [metadata |-> NoMetadata]
    /\ dres.msg = "No SignedOrder metadata in transaction for Signet bundle"

\* The requests create_bundles passed to sign_and_encode_txns, read back from
\* the order and the fills: the kinds and payloads, in list order.
RequestedKinds ==
    (IF dconfig.rollup_chain_id \in DOMAIN signed_fills
     THEN <<[kind |-> "fill", payload |-> signed_fills[dconfig.rollup_chain_id]]>>
     ELSE <<>>)
    \o <<[kind |-> "initiate",
          payload |-> [order |-> signed_order, recipient |-> dconfig.filler_recipient]]>>

\* C16: sign_and_encode_txns, given k requests, has when it returns Ok
\* encoded k transactions, the j-th being the j-th request, all from the one
\* signer, with nonces increasing by exactly 1 from each to the next starting
\* at the signer's transaction count; while it runs, the transactions encoded
\* so far are the first requests in order and the rest are still to come.
C16_SequentialNonces ==
    dpc \in {"fill", "forward_bundle"} =>
        /\ Len(encoded_txs) + Len(tx_requests) = Len(RequestedKinds)
        /\ (dpc = "forward_bundle" => Len(encoded_txs) = Len(RequestedKinds))
        /\ \A j \in 1..Len(encoded_txs) :
            /\ TxKind(encoded_txs[j]) = RequestedKinds[j].kind
            /\ TxPayload(encoded_txs[j]) = RequestedKinds[j].payload
            /\ encoded_txs[j][8] = SignerAddress
            /\ TxNonce(encoded_txs[j]) = chainNonce + j - 1
        /\ \A j \in 1..(Len(encoded_txs) - 1) :
            TxNonce(encoded_txs[j + 1]) = TxNonce(encoded_txs[j]) + 1

\* C16 witness: a 2-request batch was signed for a signer with transaction
\* count 5: the fill transaction has nonce 5 and the initiation transaction
\* nonce 6.
C16_Witness ==
    /\ dpc = "fill"
    /\ tx_requests = <<>>
    /\ Len(encoded_txs) = 2
    /\ TxKind(encoded_txs[1]) = "fill"
    /\ TxNonce(encoded_txs[1]) = 5
    /\ TxKind(encoded_txs[2]) = "initiate"
    /\ TxNonce(encoded_txs[2]) = 6

\* C17: if provider.fill fails for a request of the batch, or answers
\* something that is not an envelope, whatever the position of the request,
\* that request is the last one the call handled and the submit call has
\* returned an error: sign_and_encode_txns returned no encoded transaction,
\* create_bundles built no bundle, and nothing was forwarded to the cache.
C17_FailedRequestAbortsBatch ==
    \A j \in 1..Len(fillHist) :
        fillHist[j] # "envelope" =>
            /\ j = Len(fillHist)
            /\ dpc = "done"
            /\ ~dres.ok
            /\ dres.kind = "Network"
            /\ encoded_txs = <<>>
            /\ built = <<>>
            /\ bundles = <<>>
            /\ forwarded = <<>>
            /\ (dcalls = 1 => cache = <<>>)

\* C17 witness: the first request of a 2-request batch was signed and the
\* second failed to fill; the call returned the error with nothing forwarded.
C17_Witness ==
    /\ fillHist = <<"envelope", "error">>
    /\ dpc = "done"
    /\ dres.msg = "Failed to fill transaction"
    /\ forwarded = <<>>

\* The distinct destination chain ids of the outputs of the order submit was
\* called with.
OutputChainIds ==
    {dtx.metadata.order.outputs[k].chainId :
        k \in 1..Len(dtx.metadata.order.outputs)}

\* What C18 says of the chains in every state where the with_chain loop of
\* create_signed_fills has run, but for the addresses: every distinct output
\* chain id was either configured or skipped with a warning, and the skipped
\* ones are those that are neither the rollup nor the host chain.
C18_ChainsProcessed ==
    /\ DOMAIN unsigned_fill.target_chains \cup unsigned_fill.warned = OutputChainIds
    /\ DOMAIN unsigned_fill.target_chains \cap unsigned_fill.warned = {}
    /\ unsigned_fill.warned =
           {c \in OutputChainIds :
               c # dconfig.rollup_chain_id /\ c # dconfig.host_chain_id}

\* The with_chain loop does not fail the call: with a deadline that fits u64
\* create_signed_fills goes on to sign, whatever the chains of the outputs.
C18_LoopDoesNotFail ==
    (dpc = "create_signed_fills" /\ signed_order.permit.deadline.hi = 0)
        => dpc' = "sign"

\* C18 as stated: the target chain ids processed are exactly the distinct
\* destination chain ids of the order's outputs; a chain id that is neither
\* the rollup nor the host chain is skipped without failing the call; fills
\* are configured for exactly the remaining chain ids, the rollup chain with
\* the order-origin address and the host chain with the order-destination
\* address.
C18_RollupOriginHostDestination ==
    dpc = "sign" =>
        /\ C18_ChainsProcessed
        /\ \A c \in DOMAIN unsigned_fill.target_chains :
            /\ c = dconfig.rollup_chain_id =>
                unsigned_fill.target_chains[c] = dconfig.order_origin_address
            /\ c = dconfig.host_chain_id =>
                unsigned_fill.target_chains[c] = dconfig.order_destination_address

\* C18 as amended: the same, the host chain being configured with the
\* order-destination address when its id differs from the rollup chain id; a
\* chain that is both the rollup and the host chain is configured with the
\* order-origin address.
C18_ConfiguredChains ==
    /\ [](dpc = "sign" =>
            /\ C18_ChainsProcessed
            /\ \A c \in DOMAIN unsigned_fill.target_chains :
                unsigned_fill.target_chains[c] =
                    IF c = dconfig.rollup_chain_id
                    THEN dconfig.order_origin_address
                    ELSE dconfig.order_destination_address)
    /\ [][C18_LoopDoesNotFail]_vars

\* C18 witness: for an order with an output on the host chain 1 and one on
\* chain 7, which is neither rollup nor host, chain 7 was skipped, chain 1
\* was configured with the order-destination address, and signing went on to
\* produce the fill of chain 1.
C18_Witness ==
    /\ dpc = "sign_and_encode_txns"
    /\ OutputChainIds = {1, 7}
    /\ dconfig.host_chain_id = 1
    /\ unsigned_fill.warned = {7}
    /\ DOMAIN unsigned_fill.target_chains = {1}
    /\ unsigned_fill.target_chains[1] = "0x02"
    /\ DOMAIN signed_fills = {1}

\* C19: in every bundle create_bundles produced, the host-fill field is
\* populated only with the fill of the host chain, and only when the host
\* chain id differs from the rollup chain id; and the fill in the host-fill
\* field is not also the payload of a fill transaction in the bundle's rollup
\* transaction list.
C19_HostFillOnlyForDistinctHost ==
    \A i \in 1..Len(built) :
        built[i].host_fills.is_some =>
            /\ built[i].host_fills.fill.chain_id = dconfig.host_chain_id
            /\ dconfig.host_chain_id # dconfig.rollup_chain_id
            /\ \A j \in 1..Len(built[i].txs) :
                ~(/\ TxKind(built[i].txs[j]) = "fill"
                  /\ TxPayload(built[i].txs[j]) = built[i].host_fills.fill)

\* C20: constructing the discovery component (SignetCacheDiscovery::new) or
\* the delivery component (SignetBundleDelivery::new) with an empty chain
\* name fails, whatever the other configuration fields are, and the error is
\* of the validation kind in both components.
C20_EmptyChainNameIsValidationError ==
    (newCall.component \in {"discovery", "delivery"}
        /\ newCall.config.chain_name = "") =>
            /\ ~newCall.ok
            /\ newCall.kind = "ValidationError"

\* ------------------------------------------------- claims C21 to C29

\* C21: once stop_monitoring has sent the stop signal on a polling task's
\* channel, that task starts no new fetch: it never takes the tick arm of the
\* select again, even when a tick is due at that moment.
C21_NoFetchAfterStopSignal ==
    [][\A i \in Ids :
          chan[i] = "signalled" => ~(tpc[i] = "select" /\ tpc'[i] = "fetching")]_vars

\* C22: an Intent is created once per discovered order. Within one session
\* an order that was converted and sent on an earlier poll is not sent again
\* when a later poll returns it: no intent sent since the latest fetch result
\* arrived carries the order of an intent sent before it.
C22_OneIntentPerOrder ==
    \A i \in Ids :
        \A p, q \in DOMAIN out[i] :
            (p <= sentBefore[i] /\ sentBefore[i] < q) => out[i][p].data # out[i][q].data

\* C23: when the conversion of one fetched order fails, only that order is
\* dropped. The step that drops it sends nothing, leaves the orders after it
\* in the queue untouched and keeps the task running (back to its select
\* after the last order of the fetch result); and every other order of the
\* fetch result, whether a conversion failed before it or not, is sent when
\* its turn comes, appended after the intents already sent.
C23_FailedConversionDropsOneOrder ==
    /\ [][\A i \in Ids :
             (/\ tpc[i] = "processing"
              /\ ~Head(queue[i]).serializable
              /\ queue'[i] # queue[i]) =>
                 /\ out'[i] = out[i]
                 /\ dropped'[i] = dropped[i] + 1
                 /\ queue'[i] = Tail(queue[i])
                 /\ tpc'[i] = (IF Tail(queue[i]) = <<>> THEN "select" ELSE "processing")]_vars
    /\ [][\A i \in Ids :
             (/\ tpc[i] = "processing"
              /\ Head(queue[i]).serializable
              /\ rxOpen[i]
              /\ queue'[i] # queue[i]) =>
                 /\ Len(out'[i]) = Len(out[i]) + 1
                 /\ SubSeq(out'[i], 1, Len(out[i])) = out[i]
                 /\ out'[i][Len(out'[i])].data.permit = Permit(Head(queue[i]))
                 /\ dropped'[i] = dropped[i]
                 /\ queue'[i] = Tail(queue[i])]_vars
    /\ [](\A i \in Ids :
             dropped[i] > 0 =>
                 /\ tpc[i] = "exited" => ExitExplained(i)
                 /\ (tpc[i] = "select" /\ Len(fetchHist[i]) < MaxTicksSeq) => ENABLED TaskTick(i, MaxTicksSeq))

\* C23 witness: of the two orders of a session's only fetch result one failed
\* to convert and the other was sent, and the task is fetching again.
C23_Witness ==
    \E i \in Ids :
        /\ fetchHist[i] = <<"ok">>
        /\ dropped[i] = 1
        /\ Len(out[i]) = 1
        /\ sentBefore[i] = 0
        /\ tpc[i] = "fetching"

C25_SequentialSubmission ==
    /\ [](Cardinality(inflight) <= 1)
    /\ [](inflight # {} =>
             /\ dpc = "forwarding"
             /\ Len(forwarded) < Len(built)
             /\ inflight = {built[Len(forwarded) + 1]}
             /\ \A j \in DOMAIN forwarded :
                    /\ forwarded[j].accepted
                    /\ forwarded[j].bundle = built[j]
                    /\ \A b \in inflight : forwarded[j].bundle.block_number < b.block_number)
    /\ [](\A j, k \in DOMAIN forwarded :
             j < k => forwarded[j].bundle.block_number < forwarded[k].bundle.block_number)
    /\ []((dpc \in {"forward_bundle", "forwarding"} /\ (inflight # {} \/ forwarded # <<>>)) =>
             /\ tx_requests = <<>>
             /\ \A j \in DOMAIN built : built[j].txs = encoded_txs)
    /\ [][((inflight # {} \/ forwarded # <<>>) /\ dcalls' = dcalls) =>
             /\ fillHist' = fillHist
             /\ encoded_txs' \in {encoded_txs, <<>>}]_vars

\* C25 witness: the third bundle of a call is in flight after the cache
\* acknowledged the first two.
C25_Witness ==
    /\ dpc = "forwarding"
    /\ Len(forwarded) = 2
    /\ forwarded[1].accepted /\ forwarded[2].accepted
    /\ inflight = {built[3]}
    /\ Len(fillHist) = 2

\* C26: get_block_number never returns an error. Whatever the rollup chain's
\* network entry is (absent, without an HTTP URL, with an unparsable URL, or
\* usable) and whatever the RPC answers, the call goes on to
\* create_signed_fills with the submit call still pending; the block it
\* returns is the looked-up one when the lookup is made and succeeds, and
\* otherwise the configured target_block, or 1 when none is configured.
C26_BlockNumberNeverFails ==
    /\ [](dpc = "get_block_number" =>
             \A rpc \in RpcAnswers :
                 ENABLED (/\ GetBlockNumber(rpc)
                          /\ dpc' = "create_signed_fills"
                          /\ dres' = Pending
                          /\ current_block' =
                                IF networks = "ok" /\ rpc.ok THEN rpc.block
                                ELSE IF dconfig.target_block.is_some
                                     THEN dconfig.target_block.value
                                     ELSE 1))
    /\ [][dpc = "get_block_number" =>
             /\ dpc' = "create_signed_fills"
             /\ dres' = Pending
             /\ (networks # "ok" =>
                    current_block' = IF dconfig.target_block.is_some
                                     THEN dconfig.target_block.value ELSE 1)]_vars

\* C26 witness: the live lookup failed with no target_block configured; the
\* call went on with block 1 and built its bundles for blocks 2 and up.
C26_Witness ==
    /\ networks = "ok"
    /\ ~dconfig.target_block.is_some
    /\ dpc = "forward_bundle"
    /\ current_block = 1
    /\ built # <<>>
    /\ built[1].block_number = 2

\* A stop_monitoring call that returned Ok left the instance Idle, with no
\* sender, no handle and no live task, and the start_monitoring call that
\* follows it is not refused and returns Ok.
C27_StartAfterStopReturnsOk ==
    /\ [](\A c \in SeqCallers :
             (ccall[c] = "stop" /\ cres[c] = "Ok") =>
                 /\ ~is_monitoring
                 /\ stop_signal = None
                 /\ monitoring_handle = None
                 /\ \A i \in Ids : ~Live(i))
    /\ [][\A c \in SeqCallers :
             /\ (ccall[c] = "stop" /\ cres[c] = "Ok" /\ ccall'[c] = "start")
                    => cres'[c] = "pending"
             /\ (ccall[c] = "start" /\ cres[c] = "pending" /\ cres'[c] # "pending")
                    => (cres'[c] = "Ok" /\ is_monitoring')]_vars

\* Every start_monitoring call that passes its check creates a channel that
\* did not exist, stores its sender, and spawns a task that did not exist.
C27_FreshChannelAndTask ==
    [][\A c \in SeqCallers :
          /\ (cpc[c] = "s_signal" /\ cpc'[c] = "s_spawn") =>
                 /\ chan[cid'[c]] = "none"
                 /\ chan'[cid'[c]] = "open"
                 /\ stop_signal' = cid'[c]
                 /\ tpc[cid'[c]] = "none"
                 /\ \A j \in Ids : j # cid'[c] => chan'[j] = chan[j]
          /\ (cpc[c] = "s_spawn" /\ cpc'[c] = "s_handle") =>
                 /\ tpc[cid[c]] = "none"
                 /\ tpc'[cid[c]] = "spawned"]_vars

\* A task runs until the stop signal of its own session: while none was sent
\* on its channel it is live, whatever was sent on the channels of earlier
\* sessions, and when it has exited the signal was sent on its channel.
C27_RunsUntilOwnStop(i) ==
    /\ (tpc[i] # "none" /\ chan[i] = "open") => Live(i)
    /\ tpc[i] = "exited" => chan[i] = "signalled"

\* The sessions started after an earlier session was stopped.
C27_FurtherSessions ==
    {i \in Ids : chan[i] # "none" /\ \E j \in Ids : j < i /\ chan[j] = "signalled"}

C28_QuiescentConsistency ==
    (\A c \in Callers : cpc[c] = "idle") =>
        /\ is_monitoring <=> (monitoring_handle # None /\ stop_signal # None)
        /\ is_monitoring =>
               /\ monitoring_handle = stop_signal
               /\ Live(monitoring_handle)
               /\ \A i \in Ids : Live(i) => i = monitoring_handle
        /\ ~is_monitoring => \A i \in Ids : ~Live(i)

\* C29: every stop_monitoring call eventually returns. With every fetch
\* completing and fair scheduling, under any interleaving with other
\* start_monitoring and stop_monitoring calls on the instance, a call that
\* is in stop_monitoring is eventually back from it.
C29_StopEventuallyReturns ==
    \A c \in Callers : (cpc[c] \in StopStages) ~> (cpc[c] = "idle")

====
